---- MODULE Spec2Model ----
(***************************************************************************)
(* HC-SR04 standoff controller of week01/standoff/src/hc-sr04.cpp on the   *)
(* ATmega32U4: the main loop (trigger scheduler, capture consumer, rolling *)
(* mean filter, proportional controller) interleaved at statement          *)
(* granularity with the TIMER3 input-capture interrupt.                    *)
(*                                                                         *)
(* Target facts used throughout: int is 16 bits wide, float and double are *)
(* both IEEE single precision (24-bit significand).                        *)
(***************************************************************************)
EXTENDS Integers, Sequences, FiniteSets, TLC

(***************************************************************************)
(* Bounds of the model.                                                    *)
(***************************************************************************)
\* triggers the model follows before the scheduler is stopped
MaxPings == 3
\* clock advances the model follows
MaxTicks == 6
\* triggers followed when the echo line is quiet between the echoes
WindowPings == 6

\* the millisecond clock advances in steps of this size
TickSteps == {50}
\* timer counts the input capture unit may latch into ICR3
Counts == {100, 65500}

(***************************************************************************)
(* Program constants.                                                      *)
(***************************************************************************)
PLS_IDLE == 0
PLS_WAITING_LOW == 1
PLS_WAITING_HIGH == 2
PLS_CAPTURED == 3
PING_INTERVAL == 100

Word16 == 65536

(***************************************************************************)
(* uint32_t values are kept as two 16-bit halves <<hi, lo>>.               *)
(***************************************************************************)
U32(hi, lo) == <<hi, lo>>

\* a + d for a uint32_t a and 0 <= d < 65536, modulo 2^32
Add32(a, d) ==
  LET lo == a[2] + d
      hi == a[1] + (lo \div Word16)
  IN  <<hi % Word16, lo % Word16>>

\* a - b modulo 2^32
Sub32(a, b) ==
  LET borrow == IF a[2] < b[2] THEN 1 ELSE 0
      lo == (a[2] + Word16 - b[2]) % Word16
      hi == (a[1] + Word16 - b[1] - borrow) % Word16
  IN  <<hi, lo>>

\* a >= n for a uint32_t a and 0 <= n < 65536
Geq32(a, n) == a[1] > 0 \/ a[2] >= n

(***************************************************************************)
(* Single-precision arithmetic.  A float is <<n, k>>, the number n / 2^k,  *)
(* with |n| <= 2^24 and k >= 0, in lowest terms.  An operation yields the  *)
(* set of results a rounding mode can give: the exact result when it is a  *)
(* float, and otherwise the two floats around it.                          *)
(***************************************************************************)
RECURSIVE Canon(_, _)
Canon(n, k) ==
  IF n = 0 THEN <<0, 0>>
  ELSE IF k > 0 /\ n % 2 = 0 THEN Canon(n \div 2, k - 1)
  ELSE <<n, k>>

RECURSIVE BitLen(_)
BitLen(n) == IF n = 0 THEN 0 ELSE 1 + BitLen(n \div 2)

\* the floats around num / 2^k (num >= 0); inexact says the exact value lies
\* strictly between num / 2^k and (num + 1) / 2^k
FRound(num, k, inexact) ==
  LET s == BitLen(num) - 24
  IN  IF s <= 0
      THEN IF inexact THEN {Canon(num, k), Canon(num + 1, k)} ELSE {Canon(num, k)}
      ELSE LET lo == num \div (2 ^ s)
               exact == (num % (2 ^ s) = 0) /\ ~inexact
           IN  IF exact THEN {Canon(lo, k - s)}
               ELSE {Canon(lo, k - s), Canon(lo + 1, k - s)}

FNeg(S) == {<<0 - f[1], f[2]>> : f \in S}

RECURSIVE ScaleTo(_, _, _)
ScaleTo(x, lim, k) == IF x >= lim THEN <<x, k>> ELSE ScaleTo(2 * x, lim, k + 1)

\* (float)a / (float)b for integers 0 <= a < 2^24, 0 < b < 128
FDivInt(a, b) ==
  IF a = 0 THEN {<<0, 0>>}
  ELSE LET sc == ScaleTo(a, b * (2 ^ 23), 0)
       IN  FRound(sc[1] \div b, sc[2], sc[1] % b # 0)

\* x - y for a float x >= 0 and a float y that is an integer below 32
FSub(x, y) ==
  LET K == IF x[2] > 26 THEN 26 ELSE x[2]
      xs == x[1] \div (2 ^ (x[2] - K))
      st == x[1] % (2 ^ (x[2] - K)) # 0
      d == xs - y[1] * (2 ^ K)
  IN  IF d >= 0 THEN FRound(d, K, st)
      ELSE FNeg(FRound(IF st THEN 0 - d - 1 ELSE 0 - d, K, st))

\* x * y for a float y that is an integer below 128
FMul(x, y) ==
  LET p == x[1] * y[1]
  IN  IF p >= 0 THEN FRound(p, x[2], FALSE) ELSE FNeg(FRound(0 - p, x[2], FALSE))

\* x <= y for a float y that is an integer
FLeq(x, y) == x[1] <= y[1] * (2 ^ x[2])

\* Arduino's abs() macro: ((x)>0?(x):-(x))
abs(x) == IF x[1] > 0 THEN x ELSE <<0 - x[1], x[2]>>

\* conversion of a float x >= 0 to uint32_t truncates
FToU32(x) == x[1] \div (2 ^ x[2])

(***************************************************************************)
(* Pure functions of the sketch.                                           *)
(***************************************************************************)
\* the distance between the counts, without the wrap
PulseLengthTimerCounts_Abs(pEnd, pStart) ==
  IF pEnd >= pStart THEN pEnd - pStart ELSE pStart - pEnd

\* uint16_t pulseLengthTimerCounts = pulseEnd - pulseStart; both operands are
\* promoted to the 16-bit unsigned int, the difference wraps modulo 2^16
PulseLengthTimerCounts(pEnd, pStart) == (pEnd - pStart) % Word16

\* uint32_t pulseLengthUS = pulseLengthTimerCounts * 4; the product is formed
\* in the 16-bit unsigned int and only then widened
PulseLengthUS(counts) == (counts * 4) % Word16

\* the write index advanced without the wrap at 4
NextIndex_NoWrap(i) == i + 1

\* currIndex += (currIndex == 4) ? -4 : 1;
NextIndex(i) == i + (IF i = 4 THEN -4 ELSE 1)

\* the mean with the last slot left out of the sum
mean_SkipLast(values) ==
  LET sum == values[0] + values[1] + values[2] + values[3]
  IN  {FToU32(f) : f \in FDivInt(sum, 5)}

\* uint32_t mean(uint32_t *values): the sum is formed in uint32_t (it does not
\* wrap for the windows modelled), divided as a float by 5.0 and truncated
mean(values) ==
  LET sum == values[0] + values[1] + values[2] + values[3] + values[4]
  IN  {FToU32(f) : f \in FDivInt(sum, 5)}

\* int cmpfunc(const void *a, const void *b): the difference is formed in
\* uint32_t and returned as int, which is 16 bits wide on this target, so the
\* result is the low 16 bits of a - b read as a signed number
cmpfunc(a, b) ==
  LET d == (a - b) % Word16
  IN  IF d >= 32768 THEN d - Word16 ELSE d

Sign(x) == IF x < 0 THEN -1 ELSE IF x > 0 THEN 1 ELSE 0

\* cmpfunc orders the elements of values consistently: qsort requires this of
\* its comparison function, and its behaviour is undefined otherwise
Consistent(values) ==
  LET S == {values[i] : i \in 0 .. 4}
  IN  /\ \A a, b \in S : Sign(cmpfunc(a, b)) = -Sign(cmpfunc(b, a))
      /\ \A a, b, c \in S :
           cmpfunc(a, b) <= 0 /\ cmpfunc(b, c) <= 0 => cmpfunc(a, c) <= 0

Permutations5 ==
  {p \in [0 .. 4 -> 0 .. 4] : \A i, j \in 0 .. 4 : i # j => p[i] # p[j]}

\* qsort(values, 5, sizeof(uint32_t), cmpfunc): the arrays the call can leave
\* in place of values: the rearrangements in ascending order of cmpfunc when
\* cmpfunc is consistent on the elements, any rearrangement otherwise
qsort(values) ==
  LET arr == {[i \in 0 .. 4 |-> values[p[i]]] : p \in Permutations5}
  IN  IF Consistent(values)
      THEN {a \in arr : \A i \in 0 .. 3 : cmpfunc(a[i], a[i + 1]) <= 0}
      ELSE arr

\* the threshold with < for <=
Threshold_Strict(sp) ==
  IF FLeq(abs(sp), <<5, 0>>) /\ abs(sp) # <<5, 0>> THEN <<0, 0>> ELSE sp

\* if(abs(speed) <= 5) speed = 0;
Threshold(sp) == IF FLeq(abs(sp), <<5, 0>>) THEN <<0, 0>> ELSE sp

\* filteredDistance = mean / 58.0; err = filteredDistance - 20.0;
\* speed = kp * err; threshold: the values of speed passed to setEfforts
Speed(filtered) ==
  UNION { UNION { {Threshold(sp) : sp \in FMul(err, <<10, 0>>)}
                  : err \in FSub(dist, <<20, 0>>) }
          : dist \in FDivInt(filtered, 58) }

(***************************************************************************)
(* State.                                                                  *)
(***************************************************************************)
VARIABLES
  pulseStart, pulseEnd,     \* volatile uint16_t, written by the ISR
  pulseState,               \* volatile PULSE_STATE
  lastPing,                 \* uint32_t, time of the last scheduled ping
  filterValues, currIndex,  \* rolling window and its write index
  currTime,                 \* loop(): uint32_t currTime
  pulseLengthTimerCounts,   \* loop(): uint16_t
  pulseLengthUS,            \* loop(): uint32_t
  meanValue,                \* loop(): value returned by mean(filterValues)
  medianValue,              \* value returned by a call median(filterValues)
  speed,                    \* float handed to motors.setEfforts last
  pc,                       \* statement the main context executes next
  sreg_I,                   \* global interrupt enable
  icf3,                     \* TIFR3 bit 5: input capture flag (pending)
  icie3,                    \* TIMSK3 bit 5: input capture interrupt enable
  ices3,                    \* TCCR3B bit 6: 1 captures rising, 0 falling edges
  ICR3,                     \* input capture register
  trig,                     \* level driven on trigPin
  echo,                     \* level of the echo line on pin 13
  millis,                   \* the millisecond clock
  nTicks,                   \* history: clock advances so far
  nPings,                   \* history: calls of CommandPing
  nCaptured,                \* history: entries into PLS_CAPTURED
  nEfforts,                 \* history: calls of motors.setEfforts
  prevPing,                 \* history: currTime of the latest ping
  startCycle, endCycle,     \* history: ping during which each count was latched
  dirty,                    \* history: the ISR wrote a count since the main
                            \* loop last saw PLS_CAPTURED
  samples,                  \* history: the durations stored in the window
  pingLog,                  \* history: statements of the latest CommandPing
  strayRun                  \* history: the ISR ran outside the waiting states
                            \* since interrupts were last enabled by a ping

shared == <<pulseStart, pulseEnd, pulseState>>
locals == <<currTime, pulseLengthTimerCounts, pulseLengthUS, meanValue,
           medianValue>>
filter == <<filterValues, currIndex>>
hw == <<sreg_I, icf3, icie3, ices3, ICR3, trig, echo>>
clock == <<millis, nTicks>>
histCore == <<nPings, nCaptured, nEfforts, prevPing, startCycle, endCycle, dirty,
             samples>>
history == <<histCore, pingLog, strayRun>>
vars == <<shared, lastPing, filter, locals, speed, pc, hw, clock, history>>

Bump(n) == IF n > WindowPings THEN n ELSE n + 1

\* the statements of CommandPing in the order of lines 41-55
PingOrder ==
  <<"cli", "clearFlag", "enableCapture", "risingEdge", "sei", "setState",
    "trigHigh", "trigLow">>

(***************************************************************************)
(* State after setup(): TCCR3B holds the prescaler only (0x03), the        *)
(* capture interrupt is not enabled yet, lastPing = millis().              *)
(***************************************************************************)
Init ==
  /\ pulseStart = 0 /\ pulseEnd = 0 /\ pulseState = PLS_IDLE
  /\ millis = U32(0, 0) /\ lastPing = millis
  /\ filterValues = [i \in 0..4 |-> 0] /\ currIndex = 0
  /\ currTime = U32(0, 0) /\ pulseLengthTimerCounts = 0 /\ pulseLengthUS = 0
  /\ meanValue = 0 /\ medianValue = 0 /\ speed = <<0, 0>>
  /\ pc = "loop114"
  /\ sreg_I = TRUE /\ icf3 = FALSE /\ icie3 = FALSE /\ ices3 = 0
  /\ ICR3 = 0 /\ trig = 0 /\ echo = 0
  /\ nTicks = 0 /\ nPings = 0 /\ nCaptured = 0 /\ nEfforts = 0
  /\ prevPing = U32(0, 0) /\ startCycle = 0 /\ endCycle = 0 /\ dirty = FALSE
  /\ samples = <<>> /\ pingLog = <<>> /\ strayRun = FALSE

(***************************************************************************)
(* Environment: the clock and the echo line.                               *)
(***************************************************************************)
\* the millisecond counter behind millis() moves on
MillisAdvance ==
  /\ \E d \in TickSteps : millis' = Add32(millis, d)
  /\ nTicks' = nTicks + 1
  /\ UNCHANGED <<shared, lastPing, filter, locals, speed, pc, hw, history>>

Tick == nTicks < MaxTicks /\ MillisAdvance

\* an edge on pin 13; the capture unit latches the timer count and raises the
\* flag when the edge is the selected one
EchoEdge ==
  /\ echo' = 1 - echo
  /\ IF echo' = ices3
     THEN \E t \in Counts : ICR3' = t /\ icf3' = TRUE
     ELSE UNCHANGED <<ICR3, icf3>>
  /\ UNCHANGED <<shared, lastPing, filter, locals, speed, pc, sreg_I, icie3,
                 ices3, trig, clock, history>>

(***************************************************************************)
(* ISR(TIMER3_CAPT_vect): runs to completion once the flag is pending and  *)
(* the interrupt is enabled; the hardware clears the flag on entry.        *)
(* pulseState is a two-byte enum whose high byte is always 0, so an access *)
(* of the main context split by the ISR sees the old or the new value:     *)
(* each statement of the main context is one step.                         *)
(***************************************************************************)
\* the ISR with "if" for "else if": the second test sees the state just written
ISR_NoElse ==
  /\ sreg_I /\ icie3 /\ icf3
  /\ icf3' = FALSE
  /\ IF pulseState \in {PLS_WAITING_LOW, PLS_WAITING_HIGH}
     THEN /\ pulseStart' = IF pulseState = PLS_WAITING_LOW THEN ICR3 ELSE pulseStart
          /\ ices3' = IF pulseState = PLS_WAITING_LOW THEN 0 ELSE ices3
          /\ startCycle' = IF pulseState = PLS_WAITING_LOW THEN nPings ELSE startCycle
          /\ pulseEnd' = ICR3
          /\ pulseState' = PLS_CAPTURED
          /\ endCycle' = nPings /\ dirty' = TRUE
          /\ nCaptured' = Bump(nCaptured)
     ELSE UNCHANGED <<shared, ices3, startCycle, endCycle, dirty, nCaptured>>
  /\ strayRun' = (strayRun \/ pulseState \notin {PLS_WAITING_LOW, PLS_WAITING_HIGH})
  /\ UNCHANGED <<lastPing, filter, locals, speed, pc, sreg_I, icie3, ICR3,
                 trig, echo, clock, nPings, nEfforts, prevPing, samples, pingLog>>

\* the ISR with a plain "else": any capture outside PLS_WAITING_LOW latches
\* pulseEnd and raises PLS_CAPTURED
ISR_PlainElse ==
  /\ sreg_I /\ icie3 /\ icf3
  /\ icf3' = FALSE
  /\ IF pulseState = PLS_WAITING_LOW
     THEN /\ pulseStart' = ICR3
          /\ ices3' = 0
          /\ pulseState' = PLS_WAITING_HIGH
          /\ startCycle' = nPings /\ dirty' = TRUE
          /\ UNCHANGED <<pulseEnd, endCycle, nCaptured>>
     ELSE /\ pulseEnd' = ICR3
          /\ pulseState' = PLS_CAPTURED
          /\ endCycle' = nPings /\ dirty' = TRUE
          /\ nCaptured' = Bump(nCaptured)
          /\ UNCHANGED <<pulseStart, ices3, startCycle>>
  /\ strayRun' = (strayRun \/ pulseState \notin {PLS_WAITING_LOW, PLS_WAITING_HIGH})
  /\ UNCHANGED <<lastPing, filter, locals, speed, pc, sreg_I, icie3, ICR3,
                 trig, echo, clock, nPings, nEfforts, prevPing, samples, pingLog>>

\* the ISR with a final "else" that puts the state machine back to PLS_IDLE
ISR_ResetIdle ==
  /\ sreg_I /\ icie3 /\ icf3
  /\ icf3' = FALSE
  /\ IF pulseState = PLS_WAITING_LOW
     THEN /\ pulseStart' = ICR3
          /\ ices3' = 0
          /\ pulseState' = PLS_WAITING_HIGH
          /\ startCycle' = nPings /\ dirty' = TRUE
          /\ UNCHANGED <<pulseEnd, endCycle, nCaptured>>
     ELSE IF pulseState = PLS_WAITING_HIGH
     THEN /\ pulseEnd' = ICR3
          /\ pulseState' = PLS_CAPTURED
          /\ endCycle' = nPings /\ dirty' = TRUE
          /\ nCaptured' = Bump(nCaptured)
          /\ UNCHANGED <<pulseStart, ices3, startCycle>>
     ELSE /\ pulseState' = PLS_IDLE
          /\ UNCHANGED <<pulseStart, pulseEnd, ices3, startCycle, endCycle, dirty,
                         nCaptured>>
  /\ strayRun' = (strayRun \/ pulseState \notin {PLS_WAITING_LOW, PLS_WAITING_HIGH})
  /\ UNCHANGED <<lastPing, filter, locals, speed, pc, sreg_I, icie3, ICR3,
                 trig, echo, clock, nPings, nEfforts, prevPing, samples, pingLog>>

\* the ISR with line 196 left out: the falling edge is never selected
ISR_KeepEdge ==
  /\ sreg_I /\ icie3 /\ icf3
  /\ icf3' = FALSE
  /\ IF pulseState = PLS_WAITING_LOW
     THEN /\ pulseStart' = ICR3
          /\ pulseState' = PLS_WAITING_HIGH
          /\ startCycle' = nPings /\ dirty' = TRUE
          /\ UNCHANGED <<pulseEnd, ices3, endCycle, nCaptured>>
     ELSE IF pulseState = PLS_WAITING_HIGH
     THEN /\ pulseEnd' = ICR3
          /\ pulseState' = PLS_CAPTURED
          /\ endCycle' = nPings /\ dirty' = TRUE
          /\ nCaptured' = Bump(nCaptured)
          /\ UNCHANGED <<pulseStart, ices3, startCycle>>
     ELSE UNCHANGED <<shared, ices3, startCycle, endCycle, dirty, nCaptured>>
  /\ strayRun' = (strayRun \/ pulseState \notin {PLS_WAITING_LOW, PLS_WAITING_HIGH})
  /\ UNCHANGED <<lastPing, filter, locals, speed, pc, sreg_I, icie3, ICR3,
                 trig, echo, clock, nPings, nEfforts, prevPing, samples, pingLog>>

ISR_TIMER3_CAPT ==
  /\ sreg_I /\ icie3 /\ icf3
  /\ icf3' = FALSE
  /\ IF pulseState = PLS_WAITING_LOW
     THEN /\ pulseStart' = ICR3
          /\ ices3' = 0
          /\ pulseState' = PLS_WAITING_HIGH
          /\ startCycle' = nPings /\ dirty' = TRUE
          /\ UNCHANGED <<pulseEnd, endCycle, nCaptured>>
     ELSE IF pulseState = PLS_WAITING_HIGH
     THEN /\ pulseEnd' = ICR3
          /\ pulseState' = PLS_CAPTURED
          /\ endCycle' = nPings /\ dirty' = TRUE
          /\ nCaptured' = Bump(nCaptured)
          /\ UNCHANGED <<pulseStart, ices3, startCycle>>
     ELSE UNCHANGED <<shared, ices3, startCycle, endCycle, dirty, nCaptured>>
  /\ strayRun' = (strayRun \/ pulseState \notin {PLS_WAITING_LOW, PLS_WAITING_HIGH})
  /\ UNCHANGED <<lastPing, filter, locals, speed, pc, sreg_I, icie3, ICR3,
                 trig, echo, clock, nPings, nEfforts, prevPing, samples, pingLog>>

(***************************************************************************)
(* loop(), lines 114-119: the trigger scheduler.                           *)
(***************************************************************************)
Loop_ReadMillis ==
  /\ pc = "loop114"
  /\ currTime' = millis
  /\ pc' = "loop115"
  /\ UNCHANGED <<shared, lastPing, filter, pulseLengthTimerCounts,
                 pulseLengthUS, meanValue, medianValue, speed, hw, clock,
                 history>>

\* the scheduler without its back-pressure test
ShouldPing_NoIdle == Geq32(Sub32(currTime, lastPing), PING_INTERVAL)

ShouldPing ==
  Geq32(Sub32(currTime, lastPing), PING_INTERVAL) /\ pulseState = PLS_IDLE

\* the scheduler forgetting line 117
UpdateLastPing_Skip == UNCHANGED lastPing

UpdateLastPing == lastPing' = currTime

\* lines 115-118: the test holds, lastPing is updated, CommandPing is called
SchedulePing ==
  /\ pc = "loop115"
  /\ ShouldPing
  /\ UpdateLastPing
  /\ nPings' = nPings + 1 /\ prevPing' = currTime
  /\ pingLog' = <<>> /\ strayRun' = FALSE
  /\ pc' = "ping41"
  /\ UNCHANGED <<shared, filter, locals, speed, hw, clock, nCaptured, nEfforts,
                 startCycle, endCycle, dirty, samples>>

Loop_Schedule == nPings < MaxPings /\ SchedulePing

Loop_NoPing ==
  /\ pc = "loop115"
  /\ ~ShouldPing
  /\ pc' = "loop121"
  /\ UNCHANGED <<shared, lastPing, filter, locals, speed, hw, clock, history>>

(***************************************************************************)
(* CommandPing(trigPin), lines 41-55, called from line 118.                *)
(***************************************************************************)
\* cli();
Ping_cli ==
  /\ pc = "ping41"
  /\ sreg_I' = FALSE
  /\ pingLog' = Append(pingLog, "cli")
  /\ pc' = "ping43"
  /\ UNCHANGED <<shared, lastPing, filter, locals, speed, icf3, icie3, ices3,
                 ICR3, trig, echo, clock, histCore, strayRun>>

\* TIFR3 = 0x20;
Ping_ClearFlag ==
  /\ pc = "ping43"
  /\ icf3' = FALSE
  /\ pingLog' = Append(pingLog, "clearFlag")
  /\ pc' = "ping45"
  /\ UNCHANGED <<shared, lastPing, filter, locals, speed, sreg_I, icie3, ices3,
                 ICR3, trig, echo, clock, histCore, strayRun>>

\* TIMSK3 |= 0x20;
Ping_EnableCapture ==
  /\ pc = "ping45"
  /\ icie3' = TRUE
  /\ pingLog' = Append(pingLog, "enableCapture")
  /\ pc' = "ping46"
  /\ UNCHANGED <<shared, lastPing, filter, locals, speed, sreg_I, icf3, ices3,
                 ICR3, trig, echo, clock, histCore, strayRun>>

\* line 46 left out: the edge selection is not put back to the rising edge
Ping_RisingEdge_Skip ==
  /\ pc = "ping46"
  /\ pingLog' = Append(pingLog, "risingEdge")
  /\ pc' = "ping48"
  /\ UNCHANGED <<shared, lastPing, filter, locals, speed, hw, clock, histCore,
                 strayRun>>

\* TCCR3B |= 0xC0;
Ping_RisingEdge ==
  /\ pc = "ping46"
  /\ ices3' = 1
  /\ pingLog' = Append(pingLog, "risingEdge")
  /\ pc' = "ping48"
  /\ UNCHANGED <<shared, lastPing, filter, locals, speed, sreg_I, icf3, icie3,
                 ICR3, trig, echo, clock, histCore, strayRun>>

\* sei();
Ping_sei ==
  /\ pc = "ping48"
  /\ sreg_I' = TRUE
  /\ pingLog' = Append(pingLog, "sei") /\ strayRun' = FALSE
  /\ pc' = "ping51"
  /\ UNCHANGED <<shared, lastPing, filter, locals, speed, icf3, icie3, ices3,
                 ICR3, trig, echo, clock, histCore>>

\* line 51 left out: the state is not advanced before the trigger pulse
Ping_SetState_Skip ==
  /\ pc = "ping51"
  /\ pingLog' = Append(pingLog, "setState")
  /\ pc' = "ping53"
  /\ UNCHANGED <<shared, lastPing, filter, locals, speed, hw, clock, histCore,
                 strayRun>>

\* pulseState = PLS_WAITING_LOW;
Ping_SetState ==
  /\ pc = "ping51"
  /\ pulseState' = PLS_WAITING_LOW
  /\ pingLog' = Append(pingLog, "setState")
  /\ pc' = "ping53"
  /\ UNCHANGED <<pulseStart, pulseEnd, lastPing, filter, locals, speed, hw,
                 clock, histCore, strayRun>>

\* digitalWrite(trigPin, HIGH);
Ping_TrigHigh ==
  /\ pc = "ping53"
  /\ trig' = 1
  /\ pingLog' = Append(pingLog, "trigHigh")
  /\ pc' = "ping55"
  /\ UNCHANGED <<shared, lastPing, filter, locals, speed, sreg_I, icf3, icie3,
                 ices3, ICR3, echo, clock, histCore, strayRun>>

\* delayMicroseconds(10); digitalWrite(trigPin, LOW); return to loop()
Ping_TrigLow ==
  /\ pc = "ping55"
  /\ trig' = 0
  /\ pingLog' = Append(pingLog, "trigLow")
  /\ pc' = "loop121"
  /\ UNCHANGED <<shared, lastPing, filter, locals, speed, sreg_I, icf3, icie3,
                 ices3, ICR3, echo, clock, histCore, strayRun>>

CommandPing ==
  \/ Ping_cli \/ Ping_ClearFlag \/ Ping_EnableCapture \/ Ping_RisingEdge
  \/ Ping_sei \/ Ping_SetState \/ Ping_TrigHigh \/ Ping_TrigLow

(***************************************************************************)
(* loop(), lines 121-168: consumption of a captured echo.                  *)
(***************************************************************************)
\* consuming whenever a ping is outstanding
GotEcho_NotIdle == pulseState # PLS_IDLE

GotEcho == pulseState = PLS_CAPTURED

\* if(pulseState == PLS_CAPTURED)
Loop_Captured ==
  /\ pc = "loop121"
  /\ GotEcho
  /\ dirty' = FALSE
  /\ pc' = "loop124"
  /\ UNCHANGED <<shared, lastPing, filter, locals, speed, hw, clock, nPings,
                 nCaptured, nEfforts, prevPing, startCycle, endCycle, samples,
                 pingLog, strayRun>>

Loop_NotCaptured ==
  /\ pc = "loop121"
  /\ ~GotEcho
  /\ pc' = "loop114"
  /\ UNCHANGED <<shared, lastPing, filter, locals, speed, hw, clock, history>>

\* line 124 left out: the captured flag is never lowered
Loop_SetIdle_Skip ==
  /\ pc = "loop124"
  /\ pc' = "loop132"
  /\ UNCHANGED <<shared, lastPing, filter, locals, speed, hw, clock, history>>

\* pulseState = PLS_IDLE;
Loop_SetIdle ==
  /\ pc = "loop124"
  /\ pulseState' = PLS_IDLE
  /\ pc' = "loop132"
  /\ UNCHANGED <<pulseStart, pulseEnd, lastPing, filter, locals, speed, hw,
                 clock, history>>

\* noInterrupts();
Loop_noInterrupts ==
  /\ pc = "loop132"
  /\ sreg_I' = FALSE
  /\ pc' = "loop133"
  /\ UNCHANGED <<shared, lastPing, filter, locals, speed, icf3, icie3, ices3,
                 ICR3, trig, echo, clock, history>>

\* uint16_t pulseLengthTimerCounts = pulseEnd - pulseStart;
Loop_ReadPulse ==
  /\ pc = "loop133"
  /\ pulseLengthTimerCounts' = PulseLengthTimerCounts(pulseEnd, pulseStart)
  /\ pc' = "loop134"
  /\ UNCHANGED <<shared, lastPing, filter, currTime, pulseLengthUS, meanValue,
                 medianValue, speed, hw, clock, history>>

\* interrupts();
Loop_interrupts ==
  /\ pc = "loop134"
  /\ sreg_I' = TRUE
  /\ pc' = "loop143"
  /\ UNCHANGED <<shared, lastPing, filter, locals, speed, icf3, icie3, ices3,
                 ICR3, trig, echo, clock, history>>

\* uint32_t pulseLengthUS = pulseLengthTimerCounts * 4;
Loop_ToUS ==
  /\ pc = "loop143"
  /\ pulseLengthUS' = PulseLengthUS(pulseLengthTimerCounts)
  /\ pc' = "loop152"
  /\ UNCHANGED <<shared, lastPing, filter, currTime, pulseLengthTimerCounts,
                 meanValue, medianValue, speed, hw, clock, history>>

\* filterValues[currIndex] = pulseLengthUS; currIndex += ...;
Loop_Store ==
  /\ pc = "loop152"
  /\ filterValues' = [filterValues EXCEPT ![currIndex] = pulseLengthUS]
  /\ currIndex' = NextIndex(currIndex)
  /\ samples' = Append(samples, pulseLengthUS)
  /\ pc' = "loop155"
  /\ UNCHANGED <<shared, lastPing, locals, speed, hw, clock, nPings, nCaptured,
                 nEfforts, prevPing, startCycle, endCycle, dirty, pingLog,
                 strayRun>>

\* the call mean(filterValues) of line 155
Loop_Mean ==
  /\ pc = "loop155"
  /\ \E f \in mean(filterValues) : meanValue' = f
  /\ pc' = "loop159"
  /\ UNCHANGED <<shared, lastPing, filter, currTime, pulseLengthTimerCounts,
                 pulseLengthUS, medianValue, speed, hw, clock, history>>

\* lines 155-168: distance, error, speed, threshold, motors.setEfforts
Loop_Control ==
  /\ pc = "loop159"
  /\ \E sp \in Speed(meanValue) : speed' = sp
  /\ nEfforts' = Bump(nEfforts)
  /\ pc' = "loop114"
  /\ UNCHANGED <<shared, lastPing, filter, locals, hw, clock, nPings, nCaptured,
                 prevPing, startCycle, endCycle, dirty, samples, pingLog,
                 strayRun>>

Consume ==
  \/ Loop_SetIdle \/ Loop_noInterrupts \/ Loop_ReadPulse \/ Loop_interrupts
  \/ Loop_ToUS \/ Loop_Store \/ Loop_Mean \/ Loop_Control

(***************************************************************************)
(* The program: the main context, the capture interrupt, the environment.  *)
(***************************************************************************)
Next ==
  \/ Loop_ReadMillis \/ Loop_Schedule \/ Loop_NoPing
  \/ Ping_cli \/ Ping_ClearFlag \/ Ping_EnableCapture \/ Ping_RisingEdge
  \/ Ping_sei \/ Ping_SetState \/ Ping_TrigHigh \/ Ping_TrigLow
  \/ Loop_Captured \/ Loop_NotCaptured
  \/ Loop_SetIdle \/ Loop_noInterrupts \/ Loop_ReadPulse \/ Loop_interrupts
  \/ Loop_ToUS \/ Loop_Store \/ Loop_Mean \/ Loop_Control
  \/ ISR_TIMER3_CAPT \/ EchoEdge \/ Tick

Spec == Init /\ [][Next]_vars

(***************************************************************************)
(* The arithmetic of one consumption, lines 132-168, over a wider range of *)
(* inputs than Counts gives: it starts where the main loop has lowered the *)
(* captured flag, with the pair the ISR latched and a window of earlier    *)
(* samples.  The history variables play no part here.                      *)
(***************************************************************************)
\* 262140 = 4 * 65535 is the largest sample the mean is specified for; the
\* largest one line 143 can store is 65532
CalcStarts == {0, 1000, 65500}
CalcEnds == (1370 .. 1530) \cup {0, 100, 125, 500, 16383, 16384, 32768, 65400, 65535}
CalcWindows ==
  {[i \in 0..4 |-> a] : a \in {0, 100, 65532, 262140}}
    \cup {[i \in 0..4 |-> IF i = 4 THEN 0 ELSE 100]}

CalcInit ==
  /\ pulseStart \in CalcStarts /\ pulseEnd \in CalcEnds
  /\ pulseState = PLS_IDLE
  /\ millis = U32(0, 100) /\ lastPing = millis /\ currTime = millis
  /\ filterValues \in CalcWindows /\ currIndex \in {0, 4}
  /\ pulseLengthTimerCounts = 0 /\ pulseLengthUS = 0
  /\ meanValue = 0 /\ medianValue = 0 /\ speed = <<0, 0>>
  /\ pc = "loop132"
  /\ sreg_I = TRUE /\ icf3 = FALSE /\ icie3 = TRUE /\ ices3 = 0
  /\ ICR3 = pulseEnd /\ trig = 0 /\ echo = 0
  /\ nTicks = 2 /\ nPings = 1 /\ nCaptured = 1 /\ nEfforts = 0
  /\ prevPing = millis /\ startCycle = 1 /\ endCycle = 1 /\ dirty = FALSE
  /\ samples = <<>> /\ pingLog = PingOrder /\ strayRun = FALSE

CalcNext ==
  \/ Loop_noInterrupts \/ Loop_ReadPulse \/ Loop_interrupts
  \/ Loop_ToUS \/ Loop_Store \/ Loop_Mean \/ Loop_Control

SpecCalc == CalcInit /\ [][CalcNext]_vars

(***************************************************************************)
(* One call median(filterValues) on a window of stored durations.          *)
(***************************************************************************)
MedianValues == {0, 100, 500, 40000}

\* line 63: qsort rearranges the array it is handed, which is the window
Median_qsort ==
  /\ pc = "median63"
  /\ filterValues' \in qsort(filterValues)
  /\ pc' = "median64"
  /\ UNCHANGED <<shared, lastPing, currIndex, locals, speed, hw, clock, history>>

\* line 64: return values[2]
Median_return ==
  /\ pc = "median64"
  /\ medianValue' = filterValues[2]
  /\ pc' = "medianDone"
  /\ UNCHANGED <<shared, lastPing, filter, currTime, pulseLengthTimerCounts,
                 pulseLengthUS, meanValue, speed, hw, clock, history>>

median == Median_qsort \/ Median_return

MedianInit ==
  /\ pulseStart = 0 /\ pulseEnd = 0 /\ pulseState = PLS_IDLE
  /\ lastPing = U32(0, 0)
  /\ filterValues \in [0 .. 4 -> MedianValues]
  /\ currIndex \in 0 .. 4
  /\ samples = [i \in 1 .. 5 |-> filterValues[(currIndex + i - 1) % 5]]
  /\ currTime = U32(0, 0) /\ pulseLengthTimerCounts = 0 /\ pulseLengthUS = 0
  /\ meanValue = 0 /\ medianValue = 0 /\ speed = <<0, 0>>
  /\ pc = "median63"
  /\ sreg_I = TRUE /\ icf3 = FALSE /\ icie3 = TRUE /\ ices3 = 0
  /\ ICR3 = 0 /\ trig = 0 /\ echo = 0
  /\ millis = U32(0, 0) /\ nTicks = 0
  /\ nPings = 1 /\ nCaptured = 1 /\ nEfforts = 1
  /\ prevPing = millis /\ startCycle = 1 /\ endCycle = 1 /\ dirty = FALSE
  /\ pingLog = PingOrder /\ strayRun = FALSE

MedianNext == Median_qsort \/ Median_return

SpecMedian == MedianInit /\ [][MedianNext]_vars

(***************************************************************************)
(* The program with a sensor that answers every trigger with one echo and  *)
(* keeps the line quiet otherwise, followed over more cycles than the      *)
(* window has slots.  The clock is advanced while the scheduler waits for  *)
(* the period to elapse.                                                   *)
(***************************************************************************)
Window_Schedule == nPings < WindowPings /\ SchedulePing

\* the rising edge of the echo after a trigger, the falling edge after that
Window_Echo ==
  /\ pc = "loop114" /\ ~icf3
  /\ \/ pulseState = PLS_WAITING_LOW /\ echo = 0
     \/ pulseState = PLS_WAITING_HIGH /\ echo = 1
  /\ EchoEdge

Window_Tick ==
  /\ pc = "loop114" /\ pulseState = PLS_IDLE /\ nPings < WindowPings
  /\ ~Geq32(Sub32(millis, lastPing), PING_INTERVAL)
  /\ MillisAdvance

WindowNext ==
  \/ Loop_ReadMillis \/ Window_Schedule \/ Loop_NoPing
  \/ Ping_cli \/ Ping_ClearFlag \/ Ping_EnableCapture \/ Ping_RisingEdge
  \/ Ping_sei \/ Ping_SetState \/ Ping_TrigHigh \/ Ping_TrigLow
  \/ Loop_Captured \/ Loop_NotCaptured
  \/ Loop_SetIdle \/ Loop_noInterrupts \/ Loop_ReadPulse \/ Loop_interrupts
  \/ Loop_ToUS \/ Loop_Store \/ Loop_Mean \/ Loop_Control
  \/ ISR_TIMER3_CAPT \/ Window_Echo \/ Window_Tick

SpecWindow == Init /\ [][WindowNext]_vars

(***************************************************************************)
(* The program under the assumptions of progress: the sensor answers every *)
(* trigger with a rising and then a falling edge, the clock does not stop  *)
(* short of the next period, the main loop keeps running and a pending     *)
(* enabled interrupt is served.  The scheduler is followed for MaxPings    *)
(* triggers.                                                               *)
(***************************************************************************)
\* the rising edge of the echo after a trigger, the falling edge after that
Live_Echo ==
  /\ ~icf3
  /\ \/ pulseState = PLS_WAITING_LOW /\ echo = 0
     \/ pulseState = PLS_WAITING_HIGH /\ echo = 1
  /\ EchoEdge

\* the clock advances, at any point of the program, until the period since
\* the last trigger has elapsed
Live_Tick ==
  /\ nPings < MaxPings
  /\ ~Geq32(Sub32(millis, lastPing), PING_INTERVAL)
  /\ MillisAdvance

\* the statements of loop() and CommandPing
MainNext ==
  \/ Loop_ReadMillis \/ Loop_Schedule \/ Loop_NoPing
  \/ Ping_cli \/ Ping_ClearFlag \/ Ping_EnableCapture \/ Ping_RisingEdge
  \/ Ping_sei \/ Ping_SetState \/ Ping_TrigHigh \/ Ping_TrigLow
  \/ Loop_Captured \/ Loop_NotCaptured
  \/ Loop_SetIdle \/ Loop_noInterrupts \/ Loop_ReadPulse \/ Loop_interrupts
  \/ Loop_ToUS \/ Loop_Store \/ Loop_Mean \/ Loop_Control

LiveNext ==
  \/ Loop_ReadMillis \/ Loop_Schedule \/ Loop_NoPing
  \/ Ping_cli \/ Ping_ClearFlag \/ Ping_EnableCapture \/ Ping_RisingEdge
  \/ Ping_sei \/ Ping_SetState \/ Ping_TrigHigh \/ Ping_TrigLow
  \/ Loop_Captured \/ Loop_NotCaptured
  \/ Loop_SetIdle \/ Loop_noInterrupts \/ Loop_ReadPulse \/ Loop_interrupts
  \/ Loop_ToUS \/ Loop_Store \/ Loop_Mean \/ Loop_Control
  \/ ISR_TIMER3_CAPT \/ Live_Echo \/ Live_Tick

SpecLive ==
  /\ Init /\ [][LiveNext]_vars
  /\ WF_vars(MainNext)
  /\ WF_vars(ISR_TIMER3_CAPT)
  /\ WF_vars(Live_Echo)
  /\ WF_vars(Live_Tick)

(***************************************************************************)
(* Properties of the capture state machine and the scheduler.              *)
(***************************************************************************)
Waiting == {PLS_WAITING_LOW, PLS_WAITING_HIGH}

CycleSteps ==
  { <<PLS_IDLE, PLS_WAITING_LOW>>, <<PLS_WAITING_LOW, PLS_WAITING_HIGH>>,
    <<PLS_WAITING_HIGH, PLS_CAPTURED>>, <<PLS_CAPTURED, PLS_IDLE>> }

\* C1: in every interleaving of edge interrupts with the main loop, each
\* change of pulseState is one of the four steps Idle -> WAITING_LOW ->
\* WAITING_HIGH -> CAPTURED -> Idle; none is skipped, none repeated.
C1_CycleOrder ==
  [][pulseState' # pulseState => <<pulseState, pulseState'>> \in CycleSteps]_vars

\* a second cycle under way after a complete first one
C1_Witness == nEfforts = 1 /\ nPings = 2 /\ pulseState = PLS_WAITING_HIGH

\* C2: CommandPing runs only while pulseState is Idle, and the pings issued
\* are the captures completed plus at most the one in flight.
C2_BackPressure ==
  /\ nPings - nCaptured \in {0, 1}
  /\ pc \in {"ping41", "ping43", "ping45", "ping46", "ping48", "ping51"}
       => pulseState = PLS_IDLE

\* the scheduler refuses a ping that is due while one is in flight
C2_Witness ==
  /\ pc = "loop121" /\ pulseState = PLS_WAITING_LOW
  /\ nPings = 2 /\ nCaptured = 1
  /\ Geq32(Sub32(currTime, lastPing), PING_INTERVAL)

\* C3: from the moment the main loop sees PLS_CAPTURED until it has read the
\* pair, the ISR writes neither count, and the pair read was latched during
\* the latest ping.
C3_NoTornPair ==
  /\ pc \in {"loop124", "loop132", "loop133", "loop134"} => ~dirty
  /\ pc = "loop133" => startCycle = nPings /\ endCycle = nPings

\* the pair is read while a stray capture is pending behind the masked interrupt
C3_Witness ==
  /\ pc = "loop133" /\ icf3 /\ icie3 /\ nPings = 2
  /\ pulseStart = 65500 /\ pulseEnd = 100

\* C4: the window changes and a motor command is issued only for a capture
\* not yet consumed, so motor commands never outnumber the captures.
C4_ConsumeOnce ==
  [][ /\ (filterValues' # filterValues \/ currIndex' # currIndex)
           => nEfforts < nCaptured
      /\ nEfforts' # nEfforts
           => nEfforts' = nEfforts + 1 /\ nEfforts' <= nCaptured ]_vars

\* the loop idles again after two echoes, each consumed
C4_Witness ==
  /\ pc = "loop121" /\ pulseState = PLS_IDLE
  /\ nEfforts = 2 /\ nCaptured = 2 /\ currIndex = 2

\* C5: the clock values sampled for two consecutive pings differ by at
\* least PING_INTERVAL.
C5_OncePerPeriod ==
  [][ (nPings' = nPings + 1 /\ nPings >= 1)
        => Geq32(Sub32(currTime, prevPing), PING_INTERVAL) ]_vars

\* a ping issued 150 ms after the one before: the echo came in late
C5_Witness ==
  /\ pc = "ping41" /\ nPings = 2
  /\ prevPing = U32(0, 250) /\ millis = U32(0, 250) /\ nCaptured = 1

\* C6: while pulseState is a waiting state, no step but the capture ISR
\* changes it, issues a ping, or writes the counts, the window or the motor
\* command.
C6_Stall ==
  [][ (pulseState \in Waiting /\ ~ISR_TIMER3_CAPT)
        => UNCHANGED <<pulseState, pulseStart, pulseEnd, filterValues,
                       currIndex, speed, lastPing, nPings, nEfforts>> ]_vars

\* two periods after the ping the falling edge is still missing
C6_Witness ==
  /\ pulseState = PLS_WAITING_HIGH /\ pc = "loop121"
  /\ Geq32(Sub32(currTime, lastPing), PING_INTERVAL + PING_INTERVAL)

(***************************************************************************)
(* Properties of the arithmetic, checked under SpecCalc.                   *)
(***************************************************************************)
\* C7: the pulse length in timer counts is the 16-bit count L with
\* pulseStart + L = pulseEnd modulo 65536 (the elapsed count of any pulse
\* shorter than 65536 counts, rolled over or not); 65500 to 100 gives 136.
C7_WrapDifference ==
  pc = "loop134" =>
    /\ pulseLengthTimerCounts \in 0 .. (Word16 - 1)
    /\ (pulseStart + pulseLengthTimerCounts) % Word16 = pulseEnd
    /\ (pulseStart = 65500 /\ pulseEnd = 100) => pulseLengthTimerCounts = 136

\* the counter rolled over during the pulse
C7_Witness ==
  /\ pc = "loop134" /\ pulseStart = 65500 /\ pulseEnd = 100
  /\ pulseLengthTimerCounts = 136

\* C8: pulseLengthUS is exactly 4 times the pulse length in timer counts,
\* for every count.
C8_ExactUS == pc = "loop152" => pulseLengthUS = 4 * pulseLengthTimerCounts

\* the exact value (10 F - 11600) / 58 of 10 * (F / 58 - 20), to within 1/128
NearOutput(sp, F) ==
  LET d == 58 * sp[1] - (10 * F - 11600) * (2 ^ sp[2])
      tol == (58 * (2 ^ sp[2])) \div 128
  IN  d <= tol /\ 0 - d <= tol

\* C9: the speed handed to the motors is 0 exactly when the filtered
\* duration F is in 1131..1189 (|10 * (F/58 - 20)| <= 5); otherwise it is
\* 10 * (F/58 - 20) and larger than 5 in magnitude.  F = 1160 gives 0,
\* F = 1218 (error 1.0) gives 10.
C9_DeadBand ==
  pc = "loop114" =>
    /\ speed = <<0, 0>> <=> meanValue \in 1131 .. 1189
    /\ speed # <<0, 0>> =>
         ~FLeq(abs(speed), <<5, 0>>) /\ NearOutput(speed, meanValue)
    /\ meanValue = 1218 => speed = <<10, 0>>

\* the upper edge of the dead band
C9_Witness == pc = "loop114" /\ meanValue = 1189 /\ speed = <<0, 0>>

Window180 == [i \in 0..4 |-> IF i = 4 THEN 500 ELSE 100]

\* C10: the call of mean returns floor((v0+v1+v2+v3+v4)/5) and leaves the
\* window and its index as they were; [100,100,100,100,500] gives 180.
C10_Mean ==
  [][ (pc = "loop155" /\ pc' = "loop159") =>
        /\ meanValue' = (filterValues[0] + filterValues[1] + filterValues[2]
                           + filterValues[3] + filterValues[4]) \div 5
        /\ filterValues = Window180 => meanValue' = 180
        /\ UNCHANGED <<filterValues, currIndex>> ]_vars

C10_Witness == pc = "loop159" /\ filterValues = Window180 /\ meanValue = 180

\* the third smallest of the five values
TrueMedian(values) ==
  CHOOSE m \in {values[i] : i \in 0 .. 4} :
    /\ Cardinality({i \in 0 .. 4 : values[i] < m}) <= 2
    /\ Cardinality({i \in 0 .. 4 : values[i] <= m}) >= 3

\* C11: median(values) returns the third smallest of the five values, for
\* every window of stored durations, windows whose elements differ by 32768
\* or more included
C11_TrueMedian ==
  pc = "medianDone" => medianValue = TrueMedian(filterValues)

\* C12: a call of median on the rolling window leaves the five slots, their
\* order and the write index as they were
C12_WindowUntouched ==
  [][(pc = "median63" \/ pc = "median64") => UNCHANGED filter]_vars

PingPcs ==
  {"ping41", "ping43", "ping45", "ping46", "ping48", "ping51", "ping53", "ping55"}

\* C13 as stated: at the moment the trigger line is driven high, pulseState
\* is PLS_WAITING_LOW and the capture unit is armed for a rising edge with
\* its interrupt enabled
C13_ArmedAtTrigger ==
  [][(trig = 0 /\ trig' = 1) =>
       (pulseState = PLS_WAITING_LOW /\ ices3 = 1 /\ icie3 /\ sreg_I)]_vars

\* C13, amended: the statements of CommandPing run in the order of lines
\* 41-55, so the flag is cleared before the capture interrupt is enabled and
\* the state assignment, the rising-edge selection and the interrupt enables
\* all precede the trigger pulse; while the trigger line is high the interrupt
\* is enabled and pulseState has left Idle, and it is PLS_WAITING_LOW with the
\* rising edge selected unless the ISR has already latched a count in this
\* cycle; the trigger line is low again when CommandPing has returned
C13_FiringOrder ==
  /\ \E n \in 0 .. Len(PingOrder) : pingLog = SubSeq(PingOrder, 1, n)
  /\ trig = 1 =>
       /\ pc = "ping55" /\ pingLog = SubSeq(PingOrder, 1, 7)
       /\ icie3 /\ sreg_I /\ pulseState # PLS_IDLE
       /\ startCycle < nPings => (pulseState = PLS_WAITING_LOW /\ ices3 = 1)
  /\ (pc \notin PingPcs /\ nPings > 0) => (trig = 0 /\ pingLog = PingOrder)

C13_Witness ==
  /\ pc = "ping55" /\ trig = 1 /\ nPings = 2
  /\ pulseState = PLS_WAITING_LOW /\ ices3 = 1 /\ icie3

\* the statements of a consumption that follow the read of the pair at 133
AfterRead == {"loop134", "loop143", "loop152", "loop155", "loop159"}

\* C14 as stated: when the main loop sets pulseState from PLS_CAPTURED to
\* PLS_IDLE it has already read pulseStart and pulseEnd in that consumption
C14_ReadBeforeIdle ==
  [][(pulseState = PLS_CAPTURED /\ pulseState' = PLS_IDLE) => pc \in AfterRead]_vars

\* C14, amended: the main loop sets pulseState from PLS_CAPTURED to PLS_IDLE
\* at line 124, before the read of the pair at line 133; the read happens
\* with pulseState already PLS_IDLE and interrupts off, and the pair it reads
\* is the one latched in the cycle just captured, unwritten since
C14_IdleBeforeRead ==
  [][/\ (pulseState = PLS_CAPTURED /\ pulseState' = PLS_IDLE) =>
          (pc = "loop124" /\ pc' = "loop132")
     /\ (pc = "loop133" /\ pc' = "loop134") =>
          /\ pulseState = PLS_IDLE /\ ~sreg_I /\ ~dirty
          /\ startCycle = nPings /\ endCycle = nPings
          /\ pulseLengthTimerCounts' = PulseLengthTimerCounts(pulseEnd, pulseStart)]_vars

C14_Witness ==
  /\ pc = "loop134" /\ pulseState = PLS_IDLE /\ nCaptured = 2
  /\ pulseEnd # pulseStart
  /\ pulseLengthTimerCounts = PulseLengthTimerCounts(pulseEnd, pulseStart)

\* a step of the capture ISR: the pending flag is taken and the main context
\* stays where it is; a step of the main context moves pc
IsrStep == pc' = pc /\ icf3 /\ ~icf3'

MainStep == pc' # pc

\* C15: PLS_WAITING_LOW -> PLS_WAITING_HIGH and PLS_WAITING_HIGH ->
\* PLS_CAPTURED are steps of the ISR only; PLS_CAPTURED -> PLS_IDLE is a step
\* of the main loop only; the main context never changes pulseState while it
\* is in a waiting state; the ISR never sets pulseState to PLS_IDLE; and
\* pulseStart and pulseEnd change in steps of the ISR only
C15_SingleWriter ==
  [][/\ (<<pulseState, pulseState'>> \in
            {<<PLS_WAITING_LOW, PLS_WAITING_HIGH>>,
             <<PLS_WAITING_HIGH, PLS_CAPTURED>>}) => IsrStep
     /\ (pulseState = PLS_CAPTURED /\ pulseState' = PLS_IDLE) =>
          (MainStep /\ pc = "loop124")
     /\ (MainStep /\ pulseState \in Waiting) => pulseState' = pulseState
     /\ (IsrStep /\ pulseState' = PLS_IDLE) => pulseState = PLS_IDLE
     /\ (pulseStart' # pulseStart \/ pulseEnd' # pulseEnd) => IsrStep]_vars

\* the ISR has latched both counts of the second cycle and the main loop has
\* put the state back to PLS_IDLE
C15_Witness ==
  /\ pc = "loop132" /\ pulseState = PLS_IDLE /\ nCaptured = 2
  /\ startCycle = 2 /\ endCycle = 2 /\ pulseStart = 65500 /\ pulseEnd = 100

\* C16: in every cycle pulseStart is latched once, in PLS_WAITING_LOW with the
\* rising edge selected, the same step selects the falling edge, and pulseEnd
\* is latched once after that, in PLS_WAITING_HIGH; whenever pulseState is
\* PLS_WAITING_LOW the rising edge is selected and no count of the cycle is
\* latched yet, whenever it is PLS_WAITING_HIGH the falling edge is selected
\* and only pulseStart is latched, and in PLS_CAPTURED both are
C16_EdgeOrder ==
  /\ [](/\ pulseState = PLS_WAITING_LOW =>
             (ices3 = 1 /\ icie3 /\ startCycle < nPings /\ endCycle < nPings)
        /\ pulseState = PLS_WAITING_HIGH =>
             (ices3 = 0 /\ startCycle = nPings /\ endCycle < nPings)
        /\ pulseState = PLS_CAPTURED =>
             (startCycle = nPings /\ endCycle = nPings))
  /\ [][/\ (IsrStep /\ pulseState = PLS_WAITING_LOW) =>
             /\ pulseStart' = ICR3 /\ pulseEnd' = pulseEnd
             /\ startCycle < nPings /\ startCycle' = nPings
             /\ ices3 = 1 /\ ices3' = 0
        /\ (IsrStep /\ pulseState = PLS_WAITING_HIGH) =>
             /\ pulseEnd' = ICR3 /\ pulseStart' = pulseStart
             /\ endCycle < nPings /\ endCycle' = nPings
             /\ ices3 = 0 /\ ices3' = 0
        /\ (startCycle' # startCycle \/ pulseStart' # pulseStart) =>
             (IsrStep /\ pulseState = PLS_WAITING_LOW)
        /\ (endCycle' # endCycle \/ pulseEnd' # pulseEnd) =>
             (IsrStep /\ pulseState = PLS_WAITING_HIGH)
        /\ (ices3 = 1 /\ ices3' = 0) =>
             (IsrStep /\ pulseState = PLS_WAITING_LOW)]_vars

C16_Witness ==
  /\ pulseState = PLS_CAPTURED /\ nPings = 2 /\ ices3 = 0
  /\ startCycle = 2 /\ endCycle = 2 /\ pulseStart = 100 /\ pulseEnd = 65500

\* C17: a capture interrupt served while pulseState is PLS_IDLE or
\* PLS_CAPTURED leaves pulseState, pulseStart, pulseEnd and the edge selection
\* as they were
C17_StrayCapture ==
  [][(IsrStep /\ (pulseState = PLS_IDLE \/ pulseState = PLS_CAPTURED)) =>
       UNCHANGED <<pulseState, pulseStart, pulseEnd, ices3>>]_vars

\* the ISR has been served between sei() and the state assignment of the
\* second CommandPing
C17_Witness ==
  /\ pc = "ping51" /\ strayRun /\ ~icf3 /\ nPings = 2
  /\ pulseState = PLS_IDLE /\ ices3 = 1 /\ pulseStart = 100 /\ pulseEnd = 65500

RECURSIVE SumSeq(_)
SumSeq(q) == IF q = <<>> THEN 0 ELSE Head(q) + SumSeq(Tail(q))

\* C18: currIndex stays in 0..4 and advances by one modulo 5 with every
\* stored capture; after k stored captures the window holds the min(k, 5)
\* latest samples, the oldest at currIndex, and zeros in the other slots; for
\* each of the first four captures the filtered duration is the sum of the
\* samples so far divided by 5, rounded down
C18_RollingWindow ==
  /\ [](/\ currIndex \in 0 .. 4
        /\ currIndex = Len(samples) % 5
        /\ \A j \in 1 .. Len(samples) :
             j > Len(samples) - 5 => filterValues[(j - 1) % 5] = samples[j]
        /\ \A i \in 0 .. 4 : i >= Len(samples) => filterValues[i] = 0
        /\ Len(samples) >= 5 => filterValues[currIndex] = samples[Len(samples) - 4]
        /\ (pc = "loop159" /\ Len(samples) <= 4) =>
             meanValue = SumSeq(samples) \div 5)
  /\ [][(samples' # samples \/ currIndex' # currIndex \/ filterValues' # filterValues) =>
          /\ pc = "loop152"
          /\ samples' = Append(samples, pulseLengthUS)
          /\ currIndex' = (currIndex + 1) % 5
          /\ filterValues' = [filterValues EXCEPT ![currIndex] = pulseLengthUS]]_vars

\* the sixth capture has overwritten the first, a different duration
C18_Witness ==
  /\ pc = "loop159" /\ Len(samples) = 6 /\ currIndex = 1
  /\ samples[1] = 544 /\ samples[6] = 64992 /\ filterValues[0] = 64992
  /\ filterValues[1] = samples[2]

\* C19: with the clock advancing, the loop running and every trigger
\* answered by a rising and then a falling edge, every trigger leads to
\* PLS_WAITING_HIGH, then to PLS_CAPTURED, then to PLS_IDLE with one motor
\* command for each trigger issued, never more commands than captures; and as
\* long as the scheduler is followed an idle state machine leads to the next
\* trigger, so that every one of the MaxPings triggers is issued
C19_Progress ==
  /\ (pulseState = PLS_WAITING_LOW) ~> (pulseState = PLS_WAITING_HIGH)
  /\ (pulseState = PLS_WAITING_HIGH) ~> (pulseState = PLS_CAPTURED)
  /\ (pulseState = PLS_CAPTURED) ~>
       (pulseState = PLS_IDLE /\ pc = "loop114" /\ nEfforts = nPings)
  /\ [](nEfforts <= nCaptured /\ nCaptured <= nPings)
  /\ (pulseState = PLS_IDLE /\ nPings < MaxPings) ~> (pulseState = PLS_WAITING_LOW)
  /\ <>(nPings = MaxPings /\ nEfforts = MaxPings)

C19_Witness ==
  /\ nPings = MaxPings /\ nCaptured = MaxPings /\ nEfforts = MaxPings
  /\ pulseState = PLS_IDLE /\ pc = "loop114"

====
